---- MODULE Spec2Model ----
(***************************************************************************)
(* Verification model of the numerical core of PhiFlow:                    *)
(*   - phi/physics/sdfliquid.py : update_active_mask, recompute_sdf and    *)
(*     the tail of SDFLiquidPhysics.step                                   *)
(*   - phi/physics/fluid.py     : masked_laplace, divergence_free and      *)
(*     IncompressibleFlow.step                                             *)
(* Real-valued grid data is kept in fixed point, in hundredths of a cell   *)
(* (1.0 is written 100), so that 0.5*dx, the diagonal step dx*sqrt(2) and  *)
(* the 0.01 dissipation factor are all representable.                      *)
(***************************************************************************)
EXTENDS Integers, Sequences, FiniteSets, TLC

VARIABLES
    \* ---- SDFLiquidPhysics.step / recompute_sdf ----
    sd_pc,        \* position inside step / recompute_sdf
    sd_sdf,       \* advected SDF handed to update_active_mask and recompute_sdf
    sd_inflow,    \* binary inflow mask produced by the effects
    sd_active,    \* fluiddomain._active
    sd_distance,  \* liquid.distance (max_distance), in cells
    sd_surface,   \* surface_mask of recompute_sdf
    sd_s0,        \* s_distance as initialised before the first sweep
    sd_s,         \* s_distance, the working field
    sd_iter,      \* number of completed relaxation sweeps
    sd_dt,        \* dt of the step
    sd_vmax,      \* math.max(math.abs(velocity.staggered_tensor()))
    \* ---- masked_laplace ----
    lp_pc,          \* "input" before the call, "done" after it
    lp_pressure,    \* pressure.data
    lp_active,      \* active.data
    lp_accessible,  \* accessible.data
    lp_ext,         \* extrapolation of pressure, active and accessible
    lp_out,         \* data of the returned grid
    \* ---- divergence_free ----
    pj_pc,          \* position inside divergence_free
    pj_boundaries,  \* domain.boundaries
    pj_obstacles,   \* the obstacles, a sequence
    pj_velocity,    \* velocity, one component per face
    pj_active,      \* active_mask.data (accessible_mask shares it)
    pj_hard_bcs,    \* hard_bcs
    pj_i,           \* index of the next obstacle of the loop of line 36
    pj_divergence,  \* divergence_field
    pj_pressure,    \* pressure returned by the solver
    pj_converged,   \* converged, one flag per batch element
    pj_iterations,  \* iterations returned by the solver
    pj_returned,    \* TRUE once (velocity, info) has been returned
    pj_error,       \* the exception raised, "" if none
    \* ---- IncompressibleFlow.step ----
    st_pc,          \* position inside step
    st_flags,       \* make_input_divfree, make_output_divfree, conserve_density
    st_solid,       \* np.all(Material.solid(fluid.domain.boundaries))
    st_deffects,    \* density_effects, a sequence of effect names
    st_veffects,    \* velocity_effects, a sequence of effect names
    st_dt,          \* dt
    st_age0,        \* fluid.age
    st_i,           \* index of the next effect of the running loop
    st_velocity,    \* velocity, as the sequence of operations that made it
    st_density,     \* density, as the sequence of operations that made it
    st_advected,    \* advected_velocity
    st_divergent,   \* divergent_velocity
    st_buoyancy,    \* the density the buoyancy term was computed from
    st_info,        \* solve_info: whether the name is bound, and its keys
    st_age,         \* age of the returned state
    st_error        \* the exception raised, "" if none

sdVars == <<sd_pc, sd_sdf, sd_inflow, sd_active, sd_distance, sd_surface,
            sd_s0, sd_s, sd_iter, sd_dt, sd_vmax>>

lpVars == <<lp_pc, lp_pressure, lp_active, lp_accessible, lp_ext, lp_out>>

pjVars == <<pj_pc, pj_boundaries, pj_obstacles, pj_velocity, pj_active, pj_hard_bcs,
            pj_i, pj_divergence, pj_pressure, pj_converged, pj_iterations,
            pj_returned, pj_error>>

stVars == <<st_pc, st_flags, st_solid, st_deffects, st_veffects, st_dt, st_age0, st_i,
            st_velocity, st_density, st_advected, st_divergent, st_buoyancy,
            st_info, st_age, st_error>>

vars == <<sdVars, lpVars, pjVars, stVars>>

Abs(x) == IF x < 0 THEN -x ELSE x

Min(a, b) == IF a <= b THEN a ELSE b

Max(a, b) == IF a >= b THEN a ELSE b

(***************************************************************************)
(*                      SDF redistancing (sdfliquid.py)                    *)
(***************************************************************************)

\* Bounds of the liquid grid and of the inputs.
GridW == 3
GridH == 2
MaxDistance == 2

\* dx = 1.0, in hundredths of a cell.
DX == 100

\* Cells are numbered row by row; X and Y are the two grid indices of a cell.
Cells == 1..(GridW * GridH)

X(c) == ((c - 1) % GridW) + 1

Y(c) == ((c - 1) \div GridW) + 1

CellAt(x, y) == (y - 1) * GridW + x

InGrid(x, y) == 1 <= x /\ x <= GridW /\ 1 <= y /\ y <= GridH

\* The advected SDF fields explored: a per-column profile plus a per-row
\* tilt (first row untilted), all multiples of dx/2.
ColVals == {-150, -50, 50}
RowOffs == {0, 100}

\* dt and max |velocity| explored by the dissipation step.
DtVals == {1, 2}
VMaxVals == {0, 30, 200}

\* Inflow masks explored: no inflow, or inflow into one cell.
InflowMasks == {[c \in Cells |-> 0]} \cup
    {[c \in Cells |-> IF c = i THEN 1 ELSE 0] : i \in Cells}

SdfFields == {[c \in Cells |-> col[X(c)] + (IF Y(c) = 1 THEN 0 ELSE row[Y(c)])] :
                col \in [1..GridW -> ColVals], row \in [2..GridH -> RowOffs]}

\* update_active_mask: active where sdf < 0.5*dx, OR-ed with the inflow mask
\* as a + b - a*b.
UpdateActiveMask(sdf, inflow) == [c \in Cells |->
    LET a == IF 2 * sdf[c] < DX THEN 1 ELSE 0
    IN  a + inflow[c] - a * inflow[c]]

\* All offsets of itertools.product((-1,0,1), repeat=rank), in its order.
Directions == << <<-1,-1>>, <<-1,0>>, <<-1,1>>, <<0,-1>>, <<0,0>>,
                 <<0,1>>, <<1,-1>>, <<1,0>>, <<1,1>> >>

IsZero(d) == d[1] = 0 /\ d[2] = 0

\* create_surface_mask: the cells whose active value differs from the value
\* of at least one grid neighbour.
SurfaceMask(active) == [c \in Cells |->
    IF \E k \in 1..Len(Directions) :
          LET x == X(c) + Directions[k][1]
              y == Y(c) + Directions[k][2]
          IN  InGrid(x, y) /\ active[CellAt(x, y)] # active[c]
    THEN 1 ELSE 0]

\* Variant of Signs with the leading -1 forgotten.
Signs_Flipped(active, c) == 2 * active[c] - 1

\* signs = -1 * (2*active_mask - 1), at cell c.
Signs(active, c) == -1 * (2 * active[c] - 1)

\* Lines 165-172: default +-2*(distance+1), freshly active cells reset to 0,
\* the old values kept on the surface band.
InitDistance(sdf, active, surface, distance) ==
    LET data == [c \in Cells |->
                   IF active[c] >= 1 /\ 2 * sdf[c] >= DX THEN 0 ELSE sdf[c]]
    IN  [c \in Cells |->
           IF surface[c] >= 1 THEN data[c]
           ELSE 2 * (distance + 1) * DX * Signs(active, c)]

\* dx * sqrt(d.dot(d)): 1 for an axis step, sqrt(2) (1.41) for a diagonal.
OffsetLen(d) == IF d[1] * d[1] + d[2] * d[2] = 1 THEN DX ELSE (141 * DX) \div 100

Clamp(i, n) == Max(1, Min(n, i))

\* Variant of Candidate with the "* signs" factor forgotten.
Candidate_Unsigned(s, active, d, c) ==
    s[CellAt(Clamp(X(c) - d[1], GridW), Clamp(Y(c) - d[2], GridH))] + OffsetLen(d)

\* The field shifted in direction d with symmetric padding, plus the step
\* length carrying the sign of the cell: the candidate of cell c.
Candidate(s, active, d, c) ==
    s[CellAt(Clamp(X(c) - d[1], GridW), Clamp(Y(c) - d[2], GridH))]
        + OffsetLen(d) * Signs(active, c)

\* Lines 182-195 for the directions k..9: every direction reads the
\* pre-sweep field s and writes the buffer.
RECURSIVE SweepFrom(_, _, _, _, _)
SweepFrom(s, buf, active, surface, k) ==
    IF k > Len(Directions) THEN buf
    ELSE IF IsZero(Directions[k]) THEN SweepFrom(s, buf, active, surface, k + 1)
    ELSE LET next == [c \in Cells |->
                        LET cand == Candidate(s, active, Directions[k], c)
                            cur == buf[c]
                        IN  IF Abs(cand) < Abs(cur) /\ surface[c] <= 0
                            THEN cand ELSE cur]
         IN  SweepFrom(s, next, active, surface, k + 1)

\* Variant of Sweep without the "surface_mask <= 0" guard of line 194.
Sweep_NoFreeze(s, active, surface) == SweepFrom(s, s, active, [c \in Cells |-> 0], 1)

\* One relaxation sweep (one pass of the loop of line 179).
Sweep(s, active, surface) == SweepFrom(s, s, active, surface, 1)

\* Variant of Clip with the two value arguments of math.where swapped.
Clip_Swapped(s, active, distance) == [c \in Cells |->
    IF Abs(s[c]) < distance * DX THEN -distance * DX * (2 * active[c] - 1)
    ELSE s[c]]

\* Lines 199-200.
Clip(s, active, distance) == [c \in Cells |->
    IF Abs(s[c]) < distance * DX THEN s[c]
    ELSE -distance * DX * (2 * active[c] - 1)]

\* dt * max|velocity| * 0.01, in hundredths of a cell.
Dissipation(dt, vmax) == (dt * vmax * DX) \div 100

\* Line 203.
Erode(s, dt, vmax) == [c \in Cells |-> s[c] - Dissipation(dt, vmax)]

ZeroField == [c \in Cells |-> 0]

\* The other components are not running.
SdfIdle ==
    /\ sd_pc = "idle"
    /\ sd_sdf = ZeroField
    /\ sd_inflow = ZeroField
    /\ sd_distance = 0
    /\ sd_active = ZeroField
    /\ sd_surface = ZeroField
    /\ sd_s0 = ZeroField
    /\ sd_s = ZeroField
    /\ sd_iter = 0
    /\ sd_dt = 0
    /\ sd_vmax = 0

SdfRun ==
    /\ sd_pc = "start"
    /\ sd_sdf \in SdfFields
    /\ sd_inflow \in InflowMasks
    /\ sd_distance \in 1..MaxDistance
    /\ sd_active = ZeroField
    /\ sd_surface = ZeroField
    /\ sd_s0 = ZeroField
    /\ sd_s = ZeroField
    /\ sd_iter = 0
    /\ sd_dt = 0
    /\ sd_vmax = 0

\* A step of the liquid leaves the other components alone.
SdfOnly == UNCHANGED <<lpVars, pjVars, stVars>>

\* step, line 20: the active mask of the advected SDF and the inflow.
SdfUpdateActiveMask ==
    /\ sd_pc = "start"
    /\ sd_active' = UpdateActiveMask(sd_sdf, sd_inflow)
    /\ sd_pc' = "recompute"
    /\ UNCHANGED <<sd_sdf, sd_inflow, sd_distance, sd_surface, sd_s0, sd_s, sd_iter,
                   sd_dt, sd_vmax>>
    /\ SdfOnly

\* recompute_sdf, lines 163-177.
SdfInitialise ==
    /\ sd_pc = "recompute"
    /\ sd_surface' = SurfaceMask(sd_active)
    /\ sd_s0' = InitDistance(sd_sdf, sd_active, sd_surface', sd_distance)
    /\ sd_s' = sd_s0'
    /\ sd_iter' = 0
    /\ sd_pc' = "sweep"
    /\ UNCHANGED <<sd_sdf, sd_inflow, sd_active, sd_distance, sd_dt, sd_vmax>>
    /\ SdfOnly

\* recompute_sdf, one iteration of "for _ in range(distance)".
SdfSweep ==
    /\ sd_pc = "sweep"
    /\ sd_iter < sd_distance
    /\ sd_s' = Sweep(sd_s, sd_active, sd_surface)
    /\ sd_iter' = sd_iter + 1
    /\ UNCHANGED <<sd_pc, sd_sdf, sd_inflow, sd_active, sd_distance, sd_surface, sd_s0,
                   sd_dt, sd_vmax>>
    /\ SdfOnly

\* recompute_sdf, lines 199-200, once the loop is exhausted.
SdfClip ==
    /\ sd_pc = "sweep"
    /\ sd_iter >= sd_distance
    /\ sd_s' = Clip(sd_s, sd_active, sd_distance)
    /\ sd_pc' = "erode"
    /\ UNCHANGED <<sd_sdf, sd_inflow, sd_active, sd_distance, sd_surface, sd_s0, sd_iter,
                   sd_dt, sd_vmax>>
    /\ SdfOnly

\* recompute_sdf, lines 203-205: the dissipation, then the return.
SdfErode ==
    /\ sd_pc = "erode"
    /\ \E dt \in DtVals, vmax \in VMaxVals :
          /\ sd_dt' = dt
          /\ sd_vmax' = vmax
          /\ sd_s' = Erode(sd_s, dt, vmax)
    /\ sd_pc' = "done"
    /\ UNCHANGED <<sd_sdf, sd_inflow, sd_active, sd_distance, sd_surface, sd_s0, sd_iter>>
    /\ SdfOnly

(***************************************************************************)
(*                     masked_laplace (fluid.py)                           *)
(***************************************************************************)

\* Bounds: the grid is LapN x LapN, pressure fields are a + b*x + c*y with
\* coefficients in 0..MaxP.
LapN == 3
MaxP == 1

LCells == 1..(LapN * LapN)

LX(c) == ((c - 1) % LapN) + 1

LY(c) == ((c - 1) \div LapN) + 1

LCellAt(x, y) == (y - 1) * LapN + x

Wrap(i) == ((i - 1) % LapN) + 1

\* field.pad(grid, 1).data at (x, y), x and y in 0..LapN+1: the grid's own
\* data inside, its extrapolation outside.
Pad(data, ext, x, y) ==
    IF 1 <= x /\ x <= LapN /\ 1 <= y /\ y <= LapN THEN data[LCellAt(x, y)]
    ELSE CASE ext = "zero" -> 0
           [] ext = "one" -> 1
           [] ext = "periodic" -> data[LCellAt(Wrap(x), Wrap(y))]
           [] ext = "boundary" -> data[LCellAt(Clamp(x, LapN), Clamp(y, LapN))]

\* Unit step along spatial dimension dim.
StepX(dim) == IF dim = 1 THEN 1 ELSE 0

StepY(dim) == IF dim = 2 THEN 1 ELSE 0

\* _multi_roll(t, dim, (-1, 1), diminish_others=(1, 1)): the padded field
\* seen from cell c one step down (shift -1) or up (shift 1) along dim.
Roll(data, ext, dim, shift, c) ==
    Pad(data, ext, LX(c) + shift * StepX(dim), LY(c) + shift * StepY(dim))

\* Variant of masked_laplace whose diagonal is the plain -2*p per axis.
MaskedLaplace_PlainCenter(pressure, active, accessible, ext) == [c \in LCells |->
    LET ByDim(dim) ==
          LET lap == Roll(active, ext.active, dim, -1, c) * Roll(pressure, ext.pressure, dim, -1, c)
              uap == Roll(active, ext.active, dim, 1, c) * Roll(pressure, ext.pressure, dim, 1, c)
          IN  (-2) * pressure[c] + uap * active[c] + lap * active[c]
    IN  ByDim(1) + ByDim(2)]

\* Variant of masked_laplace that weights the neighbours by the accessible
\* mask of the neighbour instead of the active value of the cell.
MaskedLaplace_ByAccessible(pressure, active, accessible, ext) == [c \in LCells |->
    LET ByDim(dim) ==
          LET lap == Roll(active, ext.active, dim, -1, c) * Roll(pressure, ext.pressure, dim, -1, c)
              uap == Roll(active, ext.active, dim, 1, c) * Roll(pressure, ext.pressure, dim, 1, c)
              lacc == Roll(accessible, ext.accessible, dim, -1, c)
              uacc == Roll(accessible, ext.accessible, dim, 1, c)
          IN  (- lacc - uacc) * pressure[c] + uap * uacc + lap * lacc
    IN  ByDim(1) + ByDim(2)]

\* masked_laplace, lines 64-76.
MaskedLaplace(pressure, active, accessible, ext) == [c \in LCells |->
    LET ByDim(dim) ==
          LET lower_active_pressure ==
                  Roll(active, ext.active, dim, -1, c) * Roll(pressure, ext.pressure, dim, -1, c)
              upper_active_pressure ==
                  Roll(active, ext.active, dim, 1, c) * Roll(pressure, ext.pressure, dim, 1, c)
              lower_accessible == Roll(accessible, ext.accessible, dim, -1, c)
              upper_accessible == Roll(accessible, ext.accessible, dim, 1, c)
              upper == upper_active_pressure * active[c]
              lower == lower_active_pressure * active[c]
              center == (- lower_accessible - upper_accessible) * pressure[c]
          IN  center + upper + lower
    IN  ByDim(1) + ByDim(2)]

\* Inputs explored: linear pressure fields, masks with at most one cell
\* cleared, and the extrapolation of each of the three grids.
PressureFields == {[c \in LCells |-> a + b * LX(c) + d * LY(c)] :
                     a \in 0..MaxP, b \in 0..MaxP, d \in 0..MaxP}

HoleMasks == {[c \in LCells |-> 1]} \cup
    {[c \in LCells |-> IF c = h THEN 0 ELSE 1] : h \in LCells}

Extrapolations == [pressure : {"zero", "boundary", "periodic"},
                   active : {"zero", "periodic"},
                   accessible : {"zero", "one", "periodic"}]

LZero == [c \in LCells |-> 0]

LapIdle ==
    /\ lp_pc = "idle"
    /\ lp_pressure = LZero
    /\ lp_active = LZero
    /\ lp_accessible = LZero
    /\ lp_ext = [pressure |-> "zero", active |-> "zero", accessible |-> "zero"]
    /\ lp_out = LZero

LapRun ==
    /\ lp_pc = "input"
    /\ lp_pressure \in PressureFields
    /\ lp_active \in HoleMasks
    /\ lp_accessible \in HoleMasks
    /\ lp_ext \in Extrapolations
    /\ lp_out = LZero

LapOnly == UNCHANGED <<sdVars, pjVars, stVars>>

\* The call of masked_laplace.
LapApply ==
    /\ lp_pc = "input"
    /\ lp_out' = MaskedLaplace(lp_pressure, lp_active, lp_accessible, lp_ext)
    /\ lp_pc' = "done"
    /\ UNCHANGED <<lp_pressure, lp_active, lp_accessible, lp_ext>>
    /\ LapOnly

(***************************************************************************)
(*                     divergence_free (fluid.py)                          *)
(***************************************************************************)

\* Bounds: a row of PjN cells with PjN+1 faces, at most MaxObstacles
\* one-cell obstacles, Batch batch elements, velocity fields a + b*f and
\* pressure fields a + b*c with coefficients in 0..MaxCoef.
PjN == 3
MaxObstacles == 1
Batch == 2
MaxCoef == 1

\* max_iterations of divergence_free.
MaxIterations == 1000

PCells == 1..PjN

\* Face f lies between the cells f-1 and f.
Faces == 1..(PjN + 1)

Obstacles == [cell : PCells, stationary : BOOLEAN]

ObstacleLists == UNION {[1..n -> Obstacles] : n \in 0..MaxObstacles}

\* mask(union(geometries)) sampled at the cell centres.
ObstacleMask(obstacles) == [c \in PCells |->
    IF \E k \in 1..Len(obstacles) : obstacles[k].cell = c THEN 1 ELSE 0]

\* Line 29: active_mask = 1 - obstacle_mask.
ActiveMask(obstacles) == [c \in PCells |-> 1 - ObstacleMask(obstacles)[c]]

\* Material.accessible_extrapolation_mode(domain.boundaries).
AccessibleExtrapolationMode(boundaries) ==
    CASE boundaries = "closed" -> "zero"
      [] boundaries = "open" -> "one"
      [] boundaries = "periodic" -> "periodic"

\* Extrapolation of the pressure grid created by domain.grid(0).
PressureExtrapolation(boundaries) ==
    CASE boundaries = "closed" -> "boundary"
      [] boundaries = "open" -> "zero"
      [] boundaries = "periodic" -> "periodic"

\* A centered grid padded by one cell: its value at c in 0..PjN+1.
Pad1(data, ext, c) ==
    IF 1 <= c /\ c <= PjN THEN data[c]
    ELSE CASE ext = "zero" -> 0
           [] ext = "one" -> 1
           [] ext = "periodic" -> data[((c - 1) % PjN) + 1]
           [] ext = "boundary" -> data[Clamp(c, PjN)]

\* Line 34: field.stagger(accessible_mask, math.minimum).
HardBcs(active, boundaries) == [f \in Faces |->
    Min(Pad1(active, AccessibleExtrapolationMode(boundaries), f - 1),
        Pad1(active, AccessibleExtrapolationMode(boundaries), f))]

\* Line 35: velocity *= hard_bcs.
ApplyBcs(velocity, hard_bcs) == [f \in Faces |-> velocity[f] * hard_bcs[f]]

\* mask(obstacle.geometry) sampled at the faces of the velocity: the faces
\* of the obstacle's cell.
ObstacleFaceMask(obstacle) == [f \in Faces |->
    IF f = obstacle.cell \/ f = obstacle.cell + 1 THEN 1 ELSE 0]

\* Velocity of a moving obstacle (angular_velocity + obstacle.velocity).
MovingVelocity == 1

\* Line 40: the obstacle's velocity blended into the field.
BlendObstacle(velocity, obstacle) == [f \in Faces |->
    (1 - ObstacleFaceMask(obstacle)[f]) * velocity[f]
        + ObstacleFaceMask(obstacle)[f] * MovingVelocity]

\* Line 42: field.divergence of the staggered velocity.
Divergence(velocity) == [c \in PCells |-> velocity[c + 1] - velocity[c]]

\* Line 48: field.staggered_gradient of the pressure.
StaggeredGradient(pressure, boundaries) == [f \in Faces |->
    Pad1(pressure, PressureExtrapolation(boundaries), f)
        - Pad1(pressure, PressureExtrapolation(boundaries), f - 1)]

\* Variant of Correct without the "gradp *= hard_bcs" of line 49.
Correct_Unmasked(velocity, pressure, hard_bcs, boundaries) == [f \in Faces |->
    velocity[f] - StaggeredGradient(pressure, boundaries)[f]]

\* Lines 48-50: the masked pressure gradient subtracted from the velocity.
Correct(velocity, pressure, hard_bcs, boundaries) == [f \in Faces |->
    velocity[f] - StaggeredGradient(pressure, boundaries)[f] * hard_bcs[f]]

\* Variant of AllConverged that accepts one converged batch element.
AllConverged_Any(converged) == \E b \in 1..Batch : converged[b]

\* Line 46: math.all(converged).
AllConverged(converged) == \A b \in 1..Batch : converged[b]

VelocityFields == {[f \in Faces |-> a + b * f] : a \in 0..MaxCoef, b \in 0..MaxCoef}

SolverPressures == {[c \in PCells |-> a + b * c] : a \in 0..MaxCoef, b \in 0..MaxCoef}

PZero == [c \in PCells |-> 0]

FZero == [f \in Faces |-> 0]

PjIdle ==
    /\ pj_pc = "idle"
    /\ pj_boundaries = "closed"
    /\ pj_obstacles = <<>>
    /\ pj_velocity = FZero
    /\ pj_active = PZero
    /\ pj_hard_bcs = FZero
    /\ pj_i = 0
    /\ pj_divergence = PZero
    /\ pj_pressure = PZero
    /\ pj_converged = [b \in 1..Batch |-> FALSE]
    /\ pj_iterations = 0
    /\ pj_returned = FALSE
    /\ pj_error = ""

PjRun ==
    /\ pj_pc = "start"
    /\ pj_boundaries \in {"closed", "open", "periodic"}
    /\ pj_obstacles \in ObstacleLists
    /\ pj_velocity \in VelocityFields
    /\ pj_active = PZero
    /\ pj_hard_bcs = FZero
    /\ pj_i = 0
    /\ pj_divergence = PZero
    /\ pj_pressure = PZero
    /\ pj_converged = [b \in 1..Batch |-> FALSE]
    /\ pj_iterations = 0
    /\ pj_returned = FALSE
    /\ pj_error = ""

PjOnly == UNCHANGED <<sdVars, lpVars, stVars>>

\* Lines 28-35: the masks and the hard boundary conditions.
PjBoundary ==
    /\ pj_pc = "start"
    /\ pj_active' = ActiveMask(pj_obstacles)
    /\ pj_hard_bcs' = HardBcs(pj_active', pj_boundaries)
    /\ pj_velocity' = ApplyBcs(pj_velocity, pj_hard_bcs')
    /\ pj_i' = 1
    /\ pj_pc' = "obstacles"
    /\ UNCHANGED <<pj_boundaries, pj_obstacles, pj_divergence, pj_pressure,
                   pj_converged, pj_iterations, pj_returned, pj_error>>
    /\ PjOnly

\* Lines 36-40, one obstacle of the loop.
PjObstacle ==
    /\ pj_pc = "obstacles"
    /\ pj_i <= Len(pj_obstacles)
    /\ pj_velocity' = IF ~pj_obstacles[pj_i].stationary
                      THEN BlendObstacle(pj_velocity, pj_obstacles[pj_i])
                      ELSE pj_velocity
    /\ pj_i' = pj_i + 1
    /\ UNCHANGED <<pj_pc, pj_boundaries, pj_obstacles, pj_active, pj_hard_bcs,
                   pj_divergence, pj_pressure, pj_converged, pj_iterations,
                   pj_returned, pj_error>>
    /\ PjOnly

\* Lines 42-45: the divergence and the conjugate-gradient solve, whose
\* pressure, convergence flags and iteration count are the solver's.
PjSolve ==
    /\ pj_pc = "obstacles"
    /\ pj_i > Len(pj_obstacles)
    /\ pj_divergence' = Divergence(pj_velocity)
    /\ pj_pressure' \in SolverPressures
    /\ pj_converged' \in [1..Batch -> BOOLEAN]
    /\ pj_iterations' \in {1, MaxIterations}
    /\ (\E b \in 1..Batch : ~pj_converged'[b]) => pj_iterations' = MaxIterations
    /\ pj_pc' = "check"
    /\ UNCHANGED <<pj_boundaries, pj_obstacles, pj_velocity, pj_active, pj_hard_bcs,
                   pj_i, pj_returned, pj_error>>
    /\ PjOnly

\* Lines 46-47: the solve did not converge.
PjRaise ==
    /\ pj_pc = "check"
    /\ ~AllConverged(pj_converged)
    /\ pj_error' = "ValueError"
    /\ pj_pc' = "raised"
    /\ UNCHANGED <<pj_boundaries, pj_obstacles, pj_velocity, pj_active, pj_hard_bcs,
                   pj_i, pj_divergence, pj_pressure, pj_converged, pj_iterations,
                   pj_returned>>
    /\ PjOnly

\* Lines 46, 48-51: the correction and the return.
PjCorrect ==
    /\ pj_pc = "check"
    /\ AllConverged(pj_converged)
    /\ pj_velocity' = Correct(pj_velocity, pj_pressure, pj_hard_bcs, pj_boundaries)
    /\ pj_returned' = TRUE
    /\ pj_pc' = "done"
    /\ UNCHANGED <<pj_boundaries, pj_obstacles, pj_active, pj_hard_bcs, pj_i,
                   pj_divergence, pj_pressure, pj_converged, pj_iterations, pj_error>>
    /\ PjOnly

(***************************************************************************)
(*                  IncompressibleFlow.step (fluid.py)                     *)
(***************************************************************************)

\* Bounds: at most MaxEffects density effects and as many velocity effects,
\* fluid.age in 0..MaxAge.
MaxEffects == 2
MaxAge == 1

DensityEffectNames == <<"density_effect_1", "density_effect_2", "density_effect_3">>

VelocityEffectNames == <<"velocity_effect_1", "velocity_effect_2", "velocity_effect_3">>

\* The sequences of distinct effects drawn from the first MaxEffects names.
EffectLists(names) ==
    LET ids == 1..Min(MaxEffects, Len(names))
        orders == UNION {[1..n -> ids] : n \in 0..Min(MaxEffects, Len(names))}
        distinct == {o \in orders : \A i, j \in 1..Len(o) : i # j => o[i] # o[j]}
    IN  {[i \in 1..Len(o) |-> names[o[i]]] : o \in distinct}

StepDts == {1, 2}

\* The entries divergence_free(..., return_info=True) returns (line 51).
SolveKeys == {"pressure", "iterations", "divergence"}

Unbound == [bound |-> FALSE, keys |-> {}]

\* Variant of StepOrder with the buoyancy moved before the velocity effects.
StepOrder_BuoyancyBeforeEffects ==
    <<"input_project", "advect", "normalize", "density_effects", "buoyancy",
      "velocity_effects", "output_project", "return">>

\* The statements of step in program order (lines 144-163).
StepOrder ==
    <<"input_project", "advect", "normalize", "density_effects", "velocity_effects",
      "buoyancy", "output_project", "return">>

\* The statement that follows statement pc.
After(pc) ==
    LET k == CHOOSE i \in 1..Len(StepOrder) : StepOrder[i] = pc
    IN  StepOrder[k + 1]

StIdle ==
    /\ st_pc = "idle"
    /\ st_flags = [make_input_divfree |-> FALSE, make_output_divfree |-> TRUE,
                   conserve_density |-> TRUE]
    /\ st_solid = FALSE
    /\ st_deffects = <<>>
    /\ st_veffects = <<>>
    /\ st_dt = 0
    /\ st_age0 = 0
    /\ st_i = 0
    /\ st_velocity = <<>>
    /\ st_density = <<>>
    /\ st_advected = <<>>
    /\ st_divergent = <<>>
    /\ st_buoyancy = <<>>
    /\ st_info = Unbound
    /\ st_age = 0
    /\ st_error = ""

\* Lines 139-143: the arguments and velocity = fluid.velocity,
\* density = fluid.density; solve_info is not bound yet.
StRun ==
    /\ st_pc = StepOrder[1]
    /\ st_flags \in [make_input_divfree : BOOLEAN, make_output_divfree : BOOLEAN,
                     conserve_density : BOOLEAN]
    /\ st_solid \in BOOLEAN
    /\ st_deffects \in EffectLists(DensityEffectNames)
    /\ st_veffects \in EffectLists(VelocityEffectNames)
    /\ st_dt \in StepDts
    /\ st_age0 \in 0..MaxAge
    /\ st_i = 1
    /\ st_velocity = <<"fluid.velocity">>
    /\ st_density = <<"fluid.density">>
    /\ st_advected = <<>>
    /\ st_divergent = <<>>
    /\ st_buoyancy = <<>>
    /\ st_info = Unbound
    /\ st_age = 0
    /\ st_error = ""

StOnly == UNCHANGED <<sdVars, lpVars, pjVars>>

StArgs == <<st_flags, st_solid, st_deffects, st_veffects, st_dt, st_age0>>

\* A call velocity, solve_info = divergence_free(velocity, ..., return_info=True)
\* made at statement pc: it returns, or raises when the solve did not converge.
StProject(pc) ==
    \E converged \in BOOLEAN :
        IF converged
        THEN /\ st_velocity' = Append(st_velocity, "divergence_free")
             /\ st_info' = [bound |-> TRUE, keys |-> SolveKeys]
             /\ st_pc' = After(pc)
             /\ UNCHANGED st_error
        ELSE /\ st_error' = "ValueError"
             /\ st_pc' = "failed"
             /\ UNCHANGED <<st_velocity, st_info>>

\* Lines 144-145.
StInputProject ==
    /\ st_pc = "input_project"
    /\ IF st_flags.make_input_divfree
       THEN StProject("input_project")
       ELSE /\ st_pc' = After("input_project")
            /\ UNCHANGED <<st_velocity, st_info, st_error>>
    /\ UNCHANGED <<StArgs, st_i, st_density, st_advected, st_divergent, st_buoyancy, st_age>>
    /\ StOnly

\* Lines 147-148.
StAdvect ==
    /\ st_pc = "advect"
    /\ st_density' = Append(st_density, "semi_lagrangian")
    /\ st_velocity' = Append(st_velocity, "semi_lagrangian")
    /\ st_advected' = st_velocity'
    /\ st_pc' = After("advect")
    /\ UNCHANGED <<StArgs, st_i, st_divergent, st_buoyancy, st_info, st_age, st_error>>
    /\ StOnly

\* Lines 149-150.
StNormalize ==
    /\ st_pc = "normalize"
    /\ st_density' = IF st_flags.conserve_density /\ st_solid
                     THEN Append(st_density, "normalized")
                     ELSE st_density
    /\ st_i' = 1
    /\ st_pc' = After("normalize")
    /\ UNCHANGED <<StArgs, st_velocity, st_advected, st_divergent, st_buoyancy,
                   st_info, st_age, st_error>>
    /\ StOnly

\* Lines 152-153: one density effect, or the end of the loop.
StDensityEffect ==
    /\ st_pc = "density_effects"
    /\ IF st_i <= Len(st_deffects)
       THEN /\ st_density' = Append(st_density, st_deffects[st_i])
            /\ st_i' = st_i + 1
            /\ UNCHANGED st_pc
       ELSE /\ st_pc' = After("density_effects")
            /\ st_i' = 1
            /\ UNCHANGED st_density
    /\ UNCHANGED <<StArgs, st_velocity, st_advected, st_divergent, st_buoyancy,
                   st_info, st_age, st_error>>
    /\ StOnly

\* Lines 154-155: one velocity effect, or the end of the loop.
StVelocityEffect ==
    /\ st_pc = "velocity_effects"
    /\ IF st_i <= Len(st_veffects)
       THEN /\ st_velocity' = Append(st_velocity, st_veffects[st_i])
            /\ st_i' = st_i + 1
            /\ UNCHANGED st_pc
       ELSE /\ st_pc' = After("velocity_effects")
            /\ st_i' = 1
            /\ UNCHANGED st_velocity
    /\ UNCHANGED <<StArgs, st_density, st_advected, st_divergent, st_buoyancy,
                   st_info, st_age, st_error>>
    /\ StOnly

\* Lines 156-157: the buoyancy of the current density, then
\* divergent_velocity = velocity.
StBuoyancy ==
    /\ st_pc = "buoyancy"
    /\ st_buoyancy' = st_density
    /\ st_velocity' = Append(st_velocity, "buoyancy")
    /\ st_divergent' = st_velocity'
    /\ st_pc' = After("buoyancy")
    /\ UNCHANGED <<StArgs, st_i, st_density, st_advected, st_info, st_age, st_error>>
    /\ StOnly

\* Lines 159-160.
StOutputProject ==
    /\ st_pc = "output_project"
    /\ IF st_flags.make_output_divfree
       THEN StProject("output_project")
       ELSE /\ st_pc' = After("output_project")
            /\ UNCHANGED <<st_velocity, st_info, st_error>>
    /\ UNCHANGED <<StArgs, st_i, st_density, st_advected, st_divergent, st_buoyancy, st_age>>
    /\ StOnly

\* Lines 161-163: the two diagnostics are stored into solve_info, which
\* raises a NameError when no projection has bound it, then the new state
\* is returned.
StReturn ==
    /\ st_pc = "return"
    /\ IF st_info.bound
       THEN /\ st_info' = [st_info EXCEPT !.keys =
                              @ \cup {"advected_velocity", "divergent_velocity"}]
            /\ st_age' = st_age0 + st_dt
            /\ st_pc' = "done"
            /\ UNCHANGED st_error
       ELSE /\ st_error' = "NameError"
            /\ st_pc' = "failed"
            /\ UNCHANGED <<st_info, st_age>>
    /\ UNCHANGED <<StArgs, st_i, st_velocity, st_density, st_advected, st_divergent,
                   st_buoyancy>>
    /\ StOnly

(***************************************************************************)
(*                           Specifications                                *)
(***************************************************************************)

SdfInit == SdfRun /\ LapIdle /\ PjIdle /\ StIdle

SdfNext ==
    \/ SdfUpdateActiveMask
    \/ SdfInitialise
    \/ SdfSweep
    \/ SdfClip
    \/ SdfErode

\* SDFLiquidPhysics.step from the advected SDF on.
SpecSdf == SdfInit /\ [][SdfNext]_vars

LaplaceInit == LapRun /\ SdfIdle /\ PjIdle /\ StIdle

LaplaceNext == LapApply

\* One call of masked_laplace.
SpecLaplace == LaplaceInit /\ [][LaplaceNext]_vars

ProjectInit == PjRun /\ SdfIdle /\ LapIdle /\ StIdle

ProjectNext ==
    \/ PjBoundary
    \/ PjObstacle
    \/ PjSolve
    \/ PjRaise
    \/ PjCorrect

\* One call of divergence_free.
SpecProject == ProjectInit /\ [][ProjectNext]_vars

StepInit == StRun /\ SdfIdle /\ LapIdle /\ PjIdle

StepNext ==
    \/ StInputProject
    \/ StAdvect
    \/ StNormalize
    \/ StDensityEffect
    \/ StVelocityEffect
    \/ StBuoyancy
    \/ StOutputProject
    \/ StReturn

\* One call of IncompressibleFlow.step.
SpecStep == StepInit /\ [][StepNext]_vars

(***************************************************************************)
(*                 Properties of IncompressibleFlow.step                   *)
(***************************************************************************)

StepEnded == st_pc \in {"done", "failed"}

\* C2: for every combination of make_input_divfree and make_output_divfree,
\* a step whose pressure solves converge returns a state of age
\* fluid.age + dt whose solve_info holds pressure, iterations, divergence,
\* advected_velocity and divergent_velocity.
C2_StepReturnsForAllFlags ==
    (StepEnded /\ st_error # "ValueError")
    => /\ st_pc = "done"
       /\ st_age = st_age0 + st_dt
       /\ st_info.bound
       /\ {"pressure", "iterations", "divergence", "advected_velocity",
           "divergent_velocity"} \subseteq st_info.keys

\* The velocity handed to the advection.
ExpectedInput ==
    IF st_flags.make_input_divfree
    THEN <<"fluid.velocity", "divergence_free">>
    ELSE <<"fluid.velocity">>

ExpectedAdvected == Append(ExpectedInput, "semi_lagrangian")

ExpectedDivergent == Append(ExpectedAdvected \o st_veffects, "buoyancy")

ExpectedDensity ==
    <<"fluid.density", "semi_lagrangian">>
        \o (IF st_flags.conserve_density /\ st_solid THEN <<"normalized">> ELSE <<>>)
        \o st_deffects

\* C8: a finished step has run advection, density rescaling, the density
\* effects in order, the velocity effects in order, buoyancy and the final
\* projection in that order: advected_velocity is the velocity right after
\* self-advection, divergent_velocity the velocity after all effects and
\* buoyancy and before the final projection, buoyancy used the density
\* after the density effects, and nothing follows the final projection.
C8_PhasesInOrder ==
    st_pc = "done" =>
        /\ st_advected = ExpectedAdvected
        /\ st_divergent = ExpectedDivergent
        /\ st_buoyancy = ExpectedDensity
        /\ st_density = ExpectedDensity
        /\ st_velocity = IF st_flags.make_output_divfree
                         THEN Append(ExpectedDivergent, "divergence_free")
                         ELSE ExpectedDivergent

\* A finished step with two density effects, two velocity effects, the
\* density rescaled and both projections made.
C8_Witness ==
    /\ st_pc = "done"
    /\ Len(st_deffects) >= 2
    /\ Len(st_veffects) >= 2
    /\ st_flags.conserve_density /\ st_solid
    /\ st_flags.make_input_divfree
    /\ st_flags.make_output_divfree
    /\ Len(st_velocity) = 7

(***************************************************************************)
(*                     Properties of divergence_free                       *)
(***************************************************************************)

\* C1: divergence_free returns only when every batch element converged; if
\* at least one did not, it raises and returns nothing.
C1_NoResultFromUnconvergedSolve ==
    /\ pj_pc = "done" =>
          /\ \A b \in 1..Batch : pj_converged[b]
          /\ pj_returned
          /\ pj_error = ""
    /\ pj_pc = "raised" =>
          /\ \E b \in 1..Batch : ~pj_converged[b]
          /\ ~pj_returned
          /\ pj_error = "ValueError"
    /\ pj_returned => pj_pc = "done"

\* The call raised although one of the batch elements had converged.
C1_Witness ==
    /\ pj_pc = "raised"
    /\ \E b \in 1..Batch : pj_converged[b]
    /\ \E b \in 1..Batch : ~pj_converged[b]
    /\ ~pj_returned

AllStationary == \A k \in 1..Len(pj_obstacles) : pj_obstacles[k].stationary

\* The accessible mask at cell c in 0..PjN+1, outside the grid by the
\* extrapolation of the domain.
Accessible(c) == Pad1(pj_active, AccessibleExtrapolationMode(pj_boundaries), c)

\* C9: with stationary obstacles, every velocity component returned by
\* divergence_free on a face bordering an inaccessible cell is zero.
C9_NoFlowAcrossInaccessibleFaces ==
    (pj_pc = "done" /\ AllStationary)
    => \A f \in Faces :
          (Accessible(f - 1) = 0 \/ Accessible(f) = 0) => pj_velocity[f] = 0

\* A returned projection with a stationary obstacle, a non-zero pressure
\* gradient across one of its faces, and flow left on some other face.
C9_Witness ==
    /\ pj_pc = "done"
    /\ AllStationary
    /\ Len(pj_obstacles) >= 1
    /\ \E f \in Faces :
          /\ Accessible(f - 1) = 0 \/ Accessible(f) = 0
          /\ StaggeredGradient(pj_pressure, pj_boundaries)[f] # 0
    /\ \E f \in Faces : pj_velocity[f] # 0

(***************************************************************************)
(*                     Properties of masked_laplace                        *)
(***************************************************************************)

LapDone == lp_pc = "done"

AllZeroExtrapolation ==
    lp_ext.pressure = "zero" /\ lp_ext.active = "zero" /\ lp_ext.accessible = "zero"

ConstantPressure == \A c \in LCells : lp_pressure[c] = lp_pressure[1]

AllActiveAccessible == \A c \in LCells : lp_active[c] = 1 /\ lp_accessible[c] = 1

\* C6: masked_laplace of a spatially constant field, every cell active and
\* accessible, zero extrapolation, is zero in every cell, boundary cells
\* included.
C6_ConstantFieldGivesZero ==
    (LapDone /\ ConstantPressure /\ AllActiveAccessible /\ AllZeroExtrapolation)
    => \A c \in LCells : lp_out[c] = 0

\* A finished call on a non-zero constant field over an all-active,
\* all-accessible, zero-extrapolation domain.
C6_Witness ==
    /\ LapDone
    /\ ConstantPressure
    /\ lp_pressure[1] # 0
    /\ AllActiveAccessible
    /\ AllZeroExtrapolation

Interior(c) == 1 < LX(c) /\ LX(c) < LapN /\ 1 < LY(c) /\ LY(c) < LapN

\* The lower (s = -1) or upper (s = 1) neighbour of an interior cell along dim.
Nb(c, dim, s) == LCellAt(LX(c) + s * StepX(dim), LY(c) + s * StepY(dim))

\* The stencil of C7: neighbours weighted by their accessibility and their
\* active value.
StatedStencil(c) ==
    LET Term(dim) ==
          LET l == Nb(c, dim, -1)
              u == Nb(c, dim, 1)
          IN  - (lp_accessible[l] + lp_accessible[u]) * lp_pressure[c]
              + lp_accessible[l] * lp_active[l] * lp_pressure[l]
              + lp_accessible[u] * lp_active[u] * lp_pressure[u]
    IN  Term(1) + Term(2)

\* The stencil with the neighbours weighted by the active value of the
\* cell itself and the active value of the neighbour.
ActiveStencil(c) ==
    LET Term(dim) ==
          LET l == Nb(c, dim, -1)
              u == Nb(c, dim, 1)
          IN  - (lp_accessible[l] + lp_accessible[u]) * lp_pressure[c]
              + lp_active[c] * lp_active[l] * lp_pressure[l]
              + lp_active[c] * lp_active[u] * lp_pressure[u]
    IN  Term(1) + Term(2)

\* C7 as stated: in every interior cell the result is the sum over the axes
\* of -(M_lower+M_upper)*p + M_lower*A_lower*p_lower + M_upper*A_upper*p_upper.
C7_StencilAsStated ==
    LapDone => \A c \in LCells : Interior(c) => lp_out[c] = StatedStencil(c)

\* C7 amended: in every interior cell the result is the sum over the axes of
\* -(M_lower+M_upper)*p + A*A_lower*p_lower + A*A_upper*p_upper: the
\* neighbour term is weighted by the active value of the cell itself and of
\* the neighbour; accessibility enters the diagonal term only.
C7_StencilByActive ==
    LapDone => \A c \in LCells : Interior(c) => lp_out[c] = ActiveStencil(c)

\* A finished call where an interior cell is inactive next to an active,
\* accessible neighbour of non-zero pressure, so the two stencils differ.
C7_Witness ==
    /\ LapDone
    /\ \E c \in LCells :
          /\ Interior(c)
          /\ lp_active[c] = 0
          /\ lp_accessible[Nb(c, 1, -1)] = 1
          /\ lp_active[Nb(c, 1, -1)] = 1
          /\ lp_pressure[Nb(c, 1, -1)] # 0
          /\ lp_out[c] # StatedStencil(c)

(***************************************************************************)
(*                 Properties of the SDF redistancing                      *)
(***************************************************************************)

SdfDone == sd_pc = "done"

InBand(c) == sd_surface[c] >= 1

SignAgrees(c) ==
    /\ sd_active[c] = 1 => sd_s[c] < 0
    /\ sd_active[c] = 0 => sd_s[c] > 0

\* The dissipation subtracted by the finished call.
SdfDissipation == Dissipation(sd_dt, sd_vmax)

\* C3 as stated: after recompute_sdf the sign of the returned SDF agrees with
\* the active mask in every cell outside the surface band, whatever the
\* velocity.
C3_SignAgreesOutsideBand ==
    SdfDone => \A c \in Cells : ~InBand(c) => SignAgrees(c)

\* C3 amended: when the active mask is the one update_active_mask derived
\* (every inactive cell has a prior SDF of at least dx/2) and the dissipation
\* dt*max|v|*0.01 is non-negative and smaller than both 1.5*dx and
\* max_distance, the sign of every cell outside the band agrees with the mask.
C3_SignAgreesSmallDissipation ==
    ( /\ SdfDone
      /\ \A c \in Cells : sd_active[c] = 0 => 2 * sd_sdf[c] >= DX
      /\ 0 <= SdfDissipation
      /\ SdfDissipation < Min((3 * DX) \div 2, sd_distance * DX) )
    => \A c \in Cells : ~InBand(c) => SignAgrees(c)

\* A finished call with positive dissipation, a band, and an inactive cell
\* outside the band whose value was propagated from the band.
C3_Witness ==
    /\ SdfDone
    /\ SdfDissipation > 0
    /\ SdfDissipation < Min((3 * DX) \div 2, sd_distance * DX)
    /\ \E c \in Cells : InBand(c)
    /\ \E c \in Cells : /\ ~InBand(c)
                        /\ sd_active[c] = 0
                        /\ sd_s[c] + SdfDissipation < sd_distance * DX

\* C4 as stated: every cell of the SDF returned by recompute_sdf has
\* magnitude at most max_distance, for any dt and any velocity.
C4_MagnitudeAtMostMaxDistance ==
    SdfDone => \A c \in Cells : Abs(sd_s[c]) <= sd_distance * DX

\* C4 amended: the field is clamped to max_distance before the dissipation
\* is subtracted, so every returned cell lies within max_distance of
\* -dt*max|v|*0.01: its magnitude is at most max_distance + |dt|*max|v|*0.01.
C4_ClampedBeforeDissipation ==
    /\ sd_pc = "erode" => \A c \in Cells : Abs(sd_s[c]) <= sd_distance * DX
    /\ SdfDone => \A c \in Cells :
          /\ Abs(sd_s[c] + SdfDissipation) <= sd_distance * DX
          /\ Abs(sd_s[c]) <= sd_distance * DX + Abs(SdfDissipation)

\* A finished call whose dissipation pushed a clamped cell past max_distance.
C4_Witness ==
    /\ SdfDone
    /\ SdfDissipation # 0
    /\ \E c \in Cells : Abs(sd_s[c]) > sd_distance * DX

\* Coordinate of cell c along axis a (1: x, 2: y) and the extent of the axis.
Coord(c, a) == IF a = 1 THEN X(c) ELSE Y(c)

Extent(a) == IF a = 1 THEN GridW ELSE GridH

\* The active mask is a half-space: the interface is the plane between the
\* layers k and k+1 of axis a, the fluid on the low side iff low.
HalfSpace(a, k, low) ==
    \A c \in Cells : sd_active[c] = (IF (Coord(c, a) <= k) = low THEN 1 ELSE 0)

\* Signed Euclidean distance of the centre of cell c to that plane, clamped
\* to max_distance.
PlaneDistance(a, k, c) ==
    LET steps == IF Coord(c, a) <= k THEN k - Coord(c, a) ELSE Coord(c, a) - k - 1
    IN  Signs(sd_active, c) * Min(steps * DX + DX \div 2, sd_distance * DX)

Interfaces == {<<a, k, low>> \in (1..2) \X (1..Max(GridW, GridH)) \X BOOLEAN :
                  k < Extent(a)}

BandHoldsDistance ==
    \A c \in Cells : InBand(c) => sd_sdf[c] = Signs(sd_active, c) * (DX \div 2)

C10_SweepsFreezeBand ==
    /\ [](sd_pc \in {"erode", "done"} => sd_iter = sd_distance)
    /\ [](sd_pc = "sweep" => \A c \in Cells : InBand(c) => sd_s[c] = sd_s0[c])
    /\ [][ (sd_pc = "sweep" /\ sd_iter' = sd_iter + 1) =>
             \A c \in Cells :
                IF InBand(c) THEN sd_s'[c] = sd_s[c]
                ELSE \/ sd_s'[c] = sd_s[c]
                     \/ \E k \in 1..Len(Directions) :
                           /\ ~IsZero(Directions[k])
                           /\ sd_s'[c] = Candidate(sd_s, sd_active, Directions[k], c)
                           /\ Abs(sd_s'[c]) < Abs(sd_s[c]) ]_vars

\* All sweeps done, with a band whose neighbour outside the band was relaxed.
C10_Witness ==
    /\ sd_pc = "sweep"
    /\ sd_iter = sd_distance
    /\ sd_iter >= 2
    /\ \E c \in Cells : InBand(c) /\ sd_s0[c] # 0
    /\ \E c \in Cells : ~InBand(c) /\ sd_s[c] # sd_s0[c]

====
